---- MODULE Spec2Model ----
(***************************************************************************)
(* Model of the remapped-snapshot provisioning protocol of                 *)
(* snapshotter_opts_unix.go: withRemappedSnapshotBase, remapRootFS, chown. *)
(* Several provisioning calls run concurrently against one snapshot store; *)
(* every store operation of a call is one atomic step.                     *)
(***************************************************************************)
EXTENDS Integers, Sequences, FiniteSets, TLC

\* ---------------------------------------------------------------- bounds
MaxCalls == 2
MaxFaults == 1
MaxId == 1

Calls == 1..MaxCalls

\* ---------------------------------------------------------------- errors
OK == "OK"
ErrNotFound == "NotFound"
ErrAlreadyExists == "AlreadyExists"
ErrFailedPrecondition == "FailedPrecondition"
ErrInvalidArgument == "InvalidArgument"
ErrUnavailable == "Unavailable"
ErrNoMapping == "NoMapping"
ErrLstat == "LstatFailed"
ErrResolve == "ResolveFailed"
Pending == "Pending"

\* ---------------------------------------------------------------- images
\* An image has a name and a chain identity; the store holds the committed
\* parent layer of each image under its chain identity.
Images == {"imgA", "imgB"}

ChainID(img) == IF img = "imgA" THEN "sha256:abc" ELSE "sha256:abd"

\* Owners (uid, gid) of the entries of a layer, in the lexical pre-order in
\* which filepath.Walk visits them: "/", "/a", "/a/f".
BaseContent(img) ==
  IF img = "imgA"
    THEN << [uid |-> 0, gid |-> 0], [uid |-> 1, gid |-> 0], [uid |-> 0, gid |-> 1] >>
    ELSE << [uid |-> 0, gid |-> 0], [uid |-> 0, gid |-> 0], [uid |-> 0, gid |-> 0] >>

\* ---------------------------------------------------------------- mappings
IDMap(c, h, n) == [ContainerID |-> c, HostID |-> h, Size |-> n]

SingleMappingWide(uid, gid) ==
  [UIDMaps |-> << [ContainerID |-> 0, HostID |-> uid, Size |-> 2] >>,
   GIDMaps |-> << [ContainerID |-> 0, HostID |-> gid, Size |-> 2] >>]

\* The mapping WithRemappedSnapshot / WithRemappedSnapshotView build.
SingleMapping(uid, gid) ==
  [UIDMaps |-> << IDMap(0, uid, 1) >>, GIDMaps |-> << IDMap(0, gid, 1) >>]

MapSingle == SingleMapping(12, 3)
MapWide == [UIDMaps |-> << IDMap(0, 1, 2) >>, GIDMaps |-> << IDMap(0, 23, 2) >>]
MapSplit == [UIDMaps |-> << IDMap(0, 1, 1), IDMap(1, 20, 1) >>,
             GIDMaps |-> << IDMap(0, 23, 2) >>]

Mappings == {MapSingle, MapWide, MapSplit}

\* A mapping whose ranges overlap: container id 1 is in two ranges of each axis,
\* user 0 is in the second range only and group 0 is in none.
MapOverlap == [UIDMaps |-> << IDMap(1, 20, 1), IDMap(0, 1, 2) >>,
               GIDMaps |-> << IDMap(1, 30, 1), IDMap(1, 23, 2) >>]

WalkMappings == Mappings \cup {MapOverlap}

OwnerIds == 0..MaxId

Owners == [uid : OwnerIds, gid : OwnerIds]

\* The requests the calls are made with (image, mapping, readonly): the
\* single-range mapping over both layers, and the two multi-range mappings with
\* the same root pair over the layer that has non-root owners.
Requests ==
  { << "imgA", MapSingle, FALSE >>, << "imgB", MapSingle, TRUE >>,
    << "imgA", MapWide, FALSE >>, << "imgA", MapWide, TRUE >>,
    << "imgA", MapSplit, FALSE >> }

\* First range of maps that covers id, 0 when there is none.
RECURSIVE FirstCover(_, _, _)
FirstCover(maps, id, i) ==
  IF i > Len(maps) THEN 0
  ELSE IF maps[i].ContainerID <= id /\ id < maps[i].ContainerID + maps[i].Size
       THEN i
       ELSE FirstCover(maps, id, i + 1)

\* Host-side value of one axis, -1 when no range covers id.
toHost(id, maps) ==
  LET i == FirstCover(maps, id, 1)
  IN IF i = 0 THEN -1 ELSE maps[i].HostID + (id - maps[i].ContainerID)

ToHost(idmap, pair) ==
  LET u == toHost(pair.uid, idmap.UIDMaps)
      g == toHost(pair.gid, idmap.GIDMaps)
  IN IF u = -1 \/ g = -1
       THEN [id |-> pair, err |-> ErrNoMapping]
       ELSE [id |-> [uid |-> u, gid |-> g], err |-> OK]

RootPair(idmap) ==
  [UID |-> toHost(0, idmap.UIDMaps), GID |-> toHost(0, idmap.GIDMaps)]

\* ---------------------------------------------------------------- key deriver
Digit(d) ==
  CASE d = 0 -> "0" [] d = 1 -> "1" [] d = 2 -> "2" [] d = 3 -> "3"
    [] d = 4 -> "4" [] d = 5 -> "5" [] d = 6 -> "6" [] d = 7 -> "7"
    [] d = 8 -> "8" [] d = 9 -> "9"

\* fmt's %d of a non-negative int.
RECURSIVE Itoa(_)
Itoa(n) == IF n < 10 THEN Digit(n) ELSE Itoa(n \div 10) \o Digit(n % 10)

usernsIDNoSep(parent, rootMap) == parent \o Itoa(rootMap.UID) \o Itoa(rootMap.GID)

usernsID(parent, rootMap) ==
  parent \o "-" \o Itoa(rootMap.UID) \o "-" \o Itoa(rootMap.GID)

RemapKey(key) == key \o "-remap"

TargetName(c) == "ctr" \o Itoa(c)

\* ---------------------------------------------------------------- snapshot store
\* The store is a function from the keys that exist to snapshot records.
Snap(kind, parent, content) == [kind |-> kind, parent |-> parent, content |-> content]

Exists(s, k) == k \in DOMAIN s

HasChild(s, k) == \E j \in DOMAIN s : s[j].parent = k

StoreStat(s, k) == IF Exists(s, k) THEN OK ELSE ErrNotFound

\* Prepare and View: a new active snapshot or view on top of a committed parent.
StoreCreate(s, kind, k, parent) ==
  IF ~Exists(s, parent) THEN [store |-> s, err |-> ErrNotFound]
  ELSE IF s[parent].kind # "committed" THEN [store |-> s, err |-> ErrInvalidArgument]
  ELSE IF Exists(s, k) THEN [store |-> s, err |-> ErrAlreadyExists]
  ELSE [store |-> (k :> Snap(kind, parent, s[parent].content)) @@ s, err |-> OK]

StorePrepare(s, k, parent) == StoreCreate(s, "active", k, parent)

StoreView(s, k, parent) == StoreCreate(s, "view", k, parent)

StoreCommit(s, name, k) ==
  IF Exists(s, name) THEN [store |-> s, err |-> ErrAlreadyExists]
  ELSE IF ~Exists(s, k) THEN [store |-> s, err |-> ErrNotFound]
  ELSE IF s[k].kind # "active" THEN [store |-> s, err |-> ErrFailedPrecondition]
  ELSE [store |-> (name :> Snap("committed", s[k].parent, s[k].content))
                    @@ [j \in DOMAIN s \ {k} |-> s[j]],
        err |-> OK]

StoreRemove(s, k) ==
  IF ~Exists(s, k) THEN [store |-> s, err |-> ErrNotFound]
  ELSE IF HasChild(s, k) THEN [store |-> s, err |-> ErrFailedPrecondition]
  ELSE [store |-> [j \in DOMAIN s \ {k} |-> s[j]], err |-> OK]

\* ---------------------------------------------------------------- ownership walk
chownUidForGid(entry, idmap, lstatErr) ==
  IF lstatErr # OK THEN [entry |-> entry, err |-> lstatErr]
  ELSE LET h == ToHost(idmap, [uid |-> entry.uid, gid |-> entry.uid])
       IN IF h.err # OK THEN [entry |-> entry, err |-> h.err]
          ELSE [entry |-> h.id, err |-> OK]

chownIgnoreErr(entry, idmap, lstatErr) ==
  LET h == ToHost(idmap, entry)
  IN IF h.err # OK THEN [entry |-> entry, err |-> h.err]
     ELSE [entry |-> h.id, err |-> OK]

\* The walk function of chown for one entry: lstatErr is the error filepath.Walk
\* hands in when reading the entry's metadata failed.
chown(entry, idmap, lstatErr) ==
  IF lstatErr # OK THEN [entry |-> entry, err |-> lstatErr]
  ELSE LET h == ToHost(idmap, entry)
       IN IF h.err # OK THEN [entry |-> entry, err |-> h.err]
          ELSE [entry |-> h.id, err |-> OK]

\* filepath.Walk from entry i on; failAt is the entry whose metadata cannot be
\* read (0: none).  The walk stops at the first error the walk function returns.
RECURSIVE Walk(_, _, _, _)
Walk(content, i, idmap, failAt) ==
  IF i > Len(content) THEN [content |-> content, err |-> OK]
  ELSE LET r == chown(content[i], idmap, IF i = failAt THEN ErrLstat ELSE OK)
       IN IF r.err # OK THEN [content |-> content, err |-> r.err]
          ELSE Walk([content EXCEPT ![i] = r.entry], i + 1, idmap, failAt)

\* ---------------------------------------------------------------- walked tree
\* A directory tree as filepath.Walk sees it, with a symbolic link that leaves
\* the walked subtree: /r is the root of the walk, /host lies outside it.
WalkRoot == "/r"

WalkPaths == {"/r", "/r/a", "/r/a/f", "/r/l", "/host", "/host/p"}

Kind(p) ==
  IF p \in {"/r", "/r/a", "/host"} THEN "dir"
  ELSE IF p = "/r/l" THEN "symlink" ELSE "file"

LinkTarget(p) == IF p = "/r/l" THEN "/host" ELSE p

\* readDirNames: the names in a directory, sorted.
DirNames(p) ==
  IF p = "/r" THEN << "a", "l" >>
  ELSE IF p = "/r/a" THEN << "f" >>
  ELSE IF p = "/host" THEN << "p" >> ELSE << >>

Join(p, n) == p \o "/" \o n

DescendNever(p) == FALSE

\* filepath.Walk reads the names of an entry only when its Lstat says directory.
Descend(p) == Kind(p) = "dir"

\* The paths filepath.Walk hands to the walk function: a directory before its
\* entries, the entries in the order of their names; Lstat does not follow a
\* link, so a link to a directory is a leaf.
RECURSIVE WalkList(_)
RECURSIVE WalkNames(_, _, _)
WalkList(p) ==
  << p >> \o (IF Descend(p) THEN WalkNames(p, DirNames(p), 1) ELSE << >>)
WalkNames(p, names, i) ==
  IF i > Len(names) THEN << >>
  ELSE WalkList(Join(p, names[i])) \o WalkNames(p, names, i + 1)

WalkOrder == WalkList(WalkRoot)

ChownFollow(fs, p, id) == [fs EXCEPT ![LinkTarget(p)] = id]

\* Line 219: os.Lchown changes the owner of the path itself, link or not.
Lchown(fs, p, id) == [fs EXCEPT ![p] = id]

remapRootFSParent(s, mounts, idmap, failAt) ==
  LET p == s[mounts].parent
      w == Walk(s[p].content, 1, idmap, failAt)
  IN [store |-> [s EXCEPT ![p].content = w.content], err |-> w.err, root |-> p]

\* mount.WithTempMount of the mounts of a snapshot, and the walk of its root.
remapRootFS(s, mounts, idmap, failAt) ==
  LET w == Walk(s[mounts].content, 1, idmap, failAt)
  IN [store |-> [s EXCEPT ![mounts].content = w.content], err |-> w.err, root |-> mounts]

\* ---------------------------------------------------------------- orchestrator
CacheHitNever(statErr) == FALSE

\* Line 168: the cache-hit branch is taken when Stat returned no error.
CacheHit(statErr) == statErr = OK

\* Line 173: a failed cache-hit Prepare is returned unless it is not-found.
HitFatal(err) == err # OK /\ err # ErrNotFound

BindAlways(c, id, name, err) == [c EXCEPT !.SnapshotKey = id, !.Image = name]

\* Lines 169-172 and 193-198: the container is bound when the target was provisioned.
Bind(c, id, name, err) ==
  IF err = OK THEN [c EXCEPT !.SnapshotKey = id, !.Image = name] ELSE c

RemapNeverFailed(err) == FALSE

\* Line 181: the walk failed when remapRootFS returned an error.
RemapFailed(err) == err # OK

CleanupResultRemove(walkErr, removeErr) == IF removeErr # OK THEN removeErr ELSE walkErr

\* Lines 182-183: the result of Remove is dropped, the walk's error is returned.
CleanupResult(walkErr, removeErr) == walkErr

commitOpTarget(s, k, id) == [r |-> StoreCommit(s, id, RemapKey(k)), name |-> id]

\* Line 185: Commit(usernsID, usernsID+"-remap").
commitOp(s, k, id) == [r |-> StoreCommit(s, k, RemapKey(k)), name |-> k]

\* One store operation, walk or binding a call has issued.
Op(op, a, b) == << op, a, b >>

NewContainer == [Snapshotter |-> "", SnapshotKey |-> "", Image |-> ""]

DefaultSnapshotter == "overlayfs"

NoHist ==
  [statRes |-> Pending, hitRes |-> Pending, prepRes |-> Pending,
   walkRes |-> Pending, removeRes |-> Pending, commitRes |-> Pending,
   finalRes |-> Pending, finalOp |-> "none", walks |-> 0,
   faulted |-> FALSE, keyAtCommitFail |-> FALSE, priorOK |-> {},
   transientLeft |-> FALSE, keyLeft |-> FALSE,
   priorWalkFail |-> {}, ops |-> << >>]

NoInput == [id |-> "", img |-> "imgA", idmap |-> MapSingle, readonly |-> FALSE]

VARIABLES
  store,      \* the snapshot store
  pc,         \* position of each call
  in,         \* inputs of each call: id, image, idmap, readonly
  ctr,        \* the container each call configures
  parent,     \* chain identity computed by each call
  key,        \* usernsID computed by each call
  mounts,     \* snapshot whose mounts line 177 returned
  ret,        \* value each call returned
  hist,       \* what each call observed and did
  walked,     \* keys of the snapshots the walk was ever run against
  faults      \* injected failures so far

callVars == << store, pc, in, ctr, parent, key, mounts, ret, hist, walked, faults >>

\* One walk of filepath.Walk(root, chown(root, idmap)), entry by entry.
VARIABLES
  wfs,        \* owner of every path
  worig,      \* the owners before the walk
  wmap,       \* the mapping of the walk
  wfail,      \* index in WalkOrder of the entry whose Lstat fails (0: none)
  wvisited,   \* the paths the walk function was called with, in order
  wret        \* what filepath.Walk returned

walkVars == << wfs, worig, wmap, wfail, wvisited, wret >>

vars == << callVars, walkVars >>

InitCalls ==
  /\ store = [k \in {ChainID(i) : i \in Images} |->
                Snap("committed", "", BaseContent(CHOOSE i \in Images : ChainID(i) = k))]
  /\ pc = [c \in Calls |-> "idle"]
  /\ in = [c \in Calls |-> NoInput]
  /\ ctr = [c \in Calls |-> NewContainer]
  /\ parent = [c \in Calls |-> ""]
  /\ key = [c \in Calls |-> ""]
  /\ mounts = [c \in Calls |-> ""]
  /\ ret = [c \in Calls |-> Pending]
  /\ hist = [c \in Calls |-> NoHist]
  /\ walked = {}
  /\ faults = 0

RootOwned == [p \in WalkPaths |-> [uid |-> 0, gid |-> 0]]

\* No walk of the tree is under way while the calls run.
Init ==
  /\ InitCalls
  /\ wfs = RootOwned
  /\ worig = RootOwned
  /\ wmap = MapSingle
  /\ wfail = 0
  /\ wvisited = << >>
  /\ wret = "Off"

\* An injected failure of the collaborator: none, or one while the budget lasts.
FaultChoice == IF faults < MaxFaults THEN {FALSE, TRUE} ELSE {FALSE}

Inject(c, f) ==
  /\ faults' = IF f THEN faults + 1 ELSE faults

Return(c, e) ==
  /\ pc' = [pc EXCEPT ![c] = "done"]
  /\ ret' = [ret EXCEPT ![c] = e]

Goto(c, l) ==
  /\ pc' = [pc EXCEPT ![c] = l]
  /\ UNCHANGED ret

WalkFailedBefore ==
  { << in[d].img, in[d].idmap >> :
      d \in {e \in Calls : pc[e] = "done" /\ hist[e].walkRes \notin {Pending, OK}} }

SucceededBefore == { << in[d].img, in[d].idmap >> : d \in {e \in Calls : ret[e] = OK} }

\* Lines 150-168: resolve the chain, derive the key, resolve the snapshotter
\* and Stat the cache key.  Only the Stat touches state the calls share, so the
\* steps before it are taken together with it.  stage is where a collaborator
\* fails, if one does.  Calls are numbered in the order in which they start.
Begin(c) ==
  /\ pc[c] = "idle"
  /\ \A d \in Calls : d < c => pc[d] # "idle"
  /\ \E img \in Images, m \in Mappings, ro \in BOOLEAN,
        stage \in {"none"} \cup (IF faults < MaxFaults THEN {"rootfs", "get", "stat"} ELSE {}) :
       LET e == IF stage = "stat" THEN ErrUnavailable
                ELSE StoreStat(store, usernsID(ChainID(img), RootPair(m)))
       IN /\ << img, m, ro >> \in Requests
          /\ in' = [in EXCEPT ![c] = [id |-> TargetName(c), img |-> img, idmap |-> m, readonly |-> ro]]
          /\ Inject(c, stage # "none")
          /\ IF stage = "rootfs"
               THEN /\ Return(c, ErrResolve)
                    /\ hist' = [hist EXCEPT ![c].priorOK = SucceededBefore,
                                            ![c].priorWalkFail = WalkFailedBefore,
                                            ![c].faulted = TRUE]
                    /\ UNCHANGED << ctr, parent, key >>
               ELSE /\ parent' = [parent EXCEPT ![c] = ChainID(img)]
                    /\ key' = [key EXCEPT ![c] = usernsID(ChainID(img), RootPair(m))]
                    /\ ctr' = [ctr EXCEPT ![c].Snapshotter = DefaultSnapshotter]
                    /\ IF stage = "get"
                         THEN /\ Return(c, ErrUnavailable)
                              /\ hist' = [hist EXCEPT ![c].priorOK = SucceededBefore,
                                                      ![c].priorWalkFail = WalkFailedBefore,
                                                      ![c].faulted = TRUE]
                         ELSE /\ Goto(c, IF CacheHit(e) THEN "hit" ELSE "prepremap")
                              /\ hist' = [hist EXCEPT ![c].priorOK = SucceededBefore,
                                                      ![c].priorWalkFail = WalkFailedBefore,
                                                      ![c].faulted = (stage # "none"),
                                                      ![c].statRes = e,
                                                      ![c].ops = << Op("Stat",
                                                          usernsID(ChainID(img), RootPair(m)), "") >>]
  /\ UNCHANGED << store, mounts, walked, walkVars >>

\* Lines 169-175: on a cache hit, Prepare the target from the cache key.
HitPrepare(c) ==
  /\ pc[c] = "hit"
  /\ \E f \in FaultChoice :
       LET r == IF f THEN [store |-> store, err |-> ErrUnavailable]
                     ELSE StorePrepare(store, in[c].id, key[c])
       IN /\ Inject(c, f)
          /\ store' = r.store
          /\ hist' = [hist EXCEPT ![c].hitRes = r.err, ![c].faulted = @ \/ f,
                                  ![c].finalOp = IF r.err = OK THEN "Prepare" ELSE @,
                                  ![c].ops = @ \o << Op("Prepare", in[c].id, key[c]) >>
                                    \o (IF Bind(ctr[c], in[c].id, in[c].img, r.err) # ctr[c]
                                          THEN << Op("Bind", in[c].id, in[c].img) >> ELSE << >>)]
          /\ ctr' = [ctr EXCEPT ![c] = Bind(@, in[c].id, in[c].img, r.err)]
          /\ IF r.err = OK THEN Return(c, OK)
             ELSE IF HitFatal(r.err) THEN Return(c, r.err)
             ELSE Goto(c, "prepremap")
  /\ UNCHANGED << in, parent, key, mounts, walked, walkVars >>

\* Lines 177-180: Prepare the transient snapshot on top of the parent layer.
PrepareRemap(c) ==
  /\ pc[c] = "prepremap"
  /\ \E f \in FaultChoice :
       LET r == IF f THEN [store |-> store, err |-> ErrUnavailable]
                     ELSE StorePrepare(store, RemapKey(key[c]), parent[c])
       IN /\ Inject(c, f)
          /\ store' = r.store
          /\ hist' = [hist EXCEPT ![c].prepRes = r.err, ![c].faulted = @ \/ f,
                                  ![c].ops = @ \o << Op("Prepare", RemapKey(key[c]), parent[c]) >>]
          /\ mounts' = [mounts EXCEPT ![c] = IF r.err = OK THEN RemapKey(key[c]) ELSE @]
          /\ IF r.err = OK THEN Goto(c, "remap") ELSE Return(c, r.err)
  /\ UNCHANGED << in, ctr, parent, key, walked, walkVars >>

\* Line 181: the ownership walk over the temporary mount.
Remap(c) ==
  /\ pc[c] = "remap"
  /\ \E failAt \in {0} \cup (IF faults < MaxFaults THEN 1..Len(store[mounts[c]].content) ELSE {}) :
       LET r == remapRootFS(store, mounts[c], in[c].idmap, failAt)
       IN /\ Inject(c, failAt # 0 /\ r.err = ErrLstat)
          /\ store' = r.store
          /\ walked' = walked \cup {r.root}
          /\ hist' = [hist EXCEPT ![c].walkRes = r.err, ![c].walks = @ + 1,
                                  ![c].faulted = @ \/ (r.err = ErrLstat),
                                  ![c].ops = @ \o << Op("Walk", r.root, "") >>]
          /\ Goto(c, IF RemapFailed(r.err) THEN "cleanup" ELSE "commit")
  /\ UNCHANGED << in, ctr, parent, key, mounts, walkVars >>

\* Lines 182-183: after a failed walk, Remove and return the walk's error.
Cleanup(c) ==
  /\ pc[c] = "cleanup"
  /\ \E f \in FaultChoice :
       LET r == IF f THEN [store |-> store, err |-> ErrUnavailable]
                     ELSE StoreRemove(store, key[c])
       IN /\ Inject(c, f)
          /\ store' = r.store
          /\ hist' = [hist EXCEPT ![c].removeRes = r.err, ![c].faulted = @ \/ f,
                                  ![c].transientLeft = Exists(r.store, RemapKey(key[c])),
                                  ![c].keyLeft = Exists(r.store, key[c]),
                                  ![c].ops = @ \o << Op("Remove", key[c], "") >>]
          /\ Return(c, CleanupResult(hist[c].walkRes, r.err))
  /\ UNCHANGED << in, ctr, parent, key, mounts, walked, walkVars >>

\* Lines 185-187: Commit the transient snapshot under the cache key.
Commit(c) ==
  /\ pc[c] = "commit"
  /\ \E f \in FaultChoice :
       LET o == commitOp(store, key[c], in[c].id)
           r == IF f THEN [store |-> store, err |-> ErrUnavailable] ELSE o.r
       IN /\ Inject(c, f)
          /\ store' = r.store
          /\ hist' = [hist EXCEPT ![c].commitRes = r.err, ![c].faulted = @ \/ f,
                                  ![c].keyAtCommitFail = (r.err # OK /\ Exists(store, key[c])),
                                  ![c].ops = @ \o << Op("Commit", o.name, RemapKey(key[c])) >>]
          /\ IF r.err = OK THEN Goto(c, "final") ELSE Return(c, r.err)
  /\ UNCHANGED << in, ctr, parent, key, mounts, walked, walkVars >>

\* Lines 188-198: View or Prepare the target from the cache key and bind it.
Final(c) ==
  /\ pc[c] = "final"
  /\ \E f \in FaultChoice :
       LET r == IF f THEN [store |-> store, err |-> ErrUnavailable]
                ELSE IF in[c].readonly THEN StoreView(store, in[c].id, key[c])
                ELSE StorePrepare(store, in[c].id, key[c])
       IN /\ Inject(c, f)
          /\ store' = r.store
          /\ hist' = [hist EXCEPT ![c].finalRes = r.err, ![c].faulted = @ \/ f,
                                  ![c].finalOp = IF r.err # OK THEN @
                                                 ELSE IF in[c].readonly THEN "View" ELSE "Prepare",
                                  ![c].ops = @ \o << Op(IF in[c].readonly THEN "View" ELSE "Prepare",
                                                        in[c].id, key[c]) >>
                                    \o (IF Bind(ctr[c], in[c].id, in[c].img, r.err) # ctr[c]
                                          THEN << Op("Bind", in[c].id, in[c].img) >> ELSE << >>)]
          /\ ctr' = [ctr EXCEPT ![c] = Bind(@, in[c].id, in[c].img, r.err)]
          /\ Return(c, r.err)
  /\ UNCHANGED << in, parent, key, mounts, walked, walkVars >>

Next ==
  \E c \in Calls :
    \/ Begin(c)
    \/ HitPrepare(c)
    \/ PrepareRemap(c)
    \/ Remap(c)
    \/ Cleanup(c)
    \/ Commit(c)
    \/ Final(c)

Spec == Init /\ [][Next]_vars

\* ---------------------------------------------------------------- the walk alone
\* A walk over a tree whose entries inside the subtree have any owners; the
\* entries outside it belong to root.
InitWalk ==
  /\ InitCalls
  /\ wfs \in { f \in [WalkPaths -> Owners] :
                 \A p \in {"/host", "/host/p"} : f[p] = [uid |-> 0, gid |-> 0] }
  /\ worig = wfs
  /\ wmap \in WalkMappings
  /\ wfail \in 0..Len(WalkOrder)
  /\ wvisited = << >>
  /\ wret = Pending

\* filepath.Walk calls the walk function with the next path and the result of
\* its Lstat; an error the walk function returns ends the walk (lines 209-219).
WalkVisit ==
  /\ wret = Pending
  /\ Len(wvisited) < Len(WalkOrder)
  /\ LET i == Len(wvisited) + 1
         p == WalkOrder[i]
         r == chown(wfs[p], wmap, IF i = wfail THEN ErrLstat ELSE OK)
     IN /\ wvisited' = Append(wvisited, p)
        /\ IF r.err # OK
             THEN wret' = r.err /\ UNCHANGED wfs
             ELSE wfs' = Lchown(wfs, p, r.entry) /\ UNCHANGED wret
  /\ UNCHANGED << worig, wmap, wfail, callVars >>

\* filepath.Walk returns nil after the last entry (line 204).
WalkReturn ==
  /\ wret = Pending
  /\ Len(wvisited) = Len(WalkOrder)
  /\ wret' = OK
  /\ UNCHANGED << wfs, worig, wmap, wfail, wvisited, callVars >>

NextWalk == WalkVisit \/ WalkReturn

SpecWalk == InitWalk /\ [][NextWalk]_vars

TypeOK ==
  /\ \A c \in Calls : pc[c] \in {"idle", "hit", "prepremap", "remap", "cleanup", "commit", "final", "done"}
  /\ faults \in 0..MaxFaults

\* ---------------------------------------------------------------- properties
Done(c) == pc[c] = "done"

Failed(e) == e # Pending /\ e # OK

\* The walk of the image's parent layer under the mapping meets no unmapped owner.
Covers(img, idmap) == Walk(BaseContent(img), 1, idmap, 0).err = OK

SameRequest(c, d) == in[c].img = in[d].img /\ in[c].idmap = in[d].idmap

TargetFrom(c) ==
  /\ Exists(store, in[c].id)
  /\ store[in[c].id].parent = key[c]
  /\ ctr[c].SnapshotKey = in[c].id

\* C1: two calls for the same base layer and mapping that both miss the cache
\* both return success, and both targets exist and are bound with the cache key
\* as parent (no collaborator failure, mapping covers the layer).
C1_RaceTolerance ==
  \A c, d \in Calls :
    (/\ c # d /\ Done(c) /\ Done(d) /\ faults = 0
     /\ SameRequest(c, d) /\ Covers(in[c].img, in[c].idmap)
     /\ hist[c].statRes = ErrNotFound /\ hist[d].statRes = ErrNotFound)
    => /\ ret[c] = OK /\ ret[d] = OK
       /\ TargetFrom(c) /\ TargetFrom(d)

\* C2: a failed Commit is fatal only if the artifact does not exist under the
\* cache key; when it exists the call goes on to provision the target.
C2_CommitRecheck ==
  \A c \in Calls :
    (Done(c) /\ Failed(hist[c].commitRes) /\ hist[c].keyAtCommitFail)
    => /\ hist[c].finalRes # Pending
       /\ ret[c] # hist[c].commitRes

\* C3: a successful read-only call leaves a view made by View, a successful
\* read-write call an active snapshot made by Prepare, on both paths.
C3_TargetKind ==
  \A c \in Calls :
    ret[c] = OK
    => /\ Exists(store, in[c].id)
       /\ store[in[c].id].parent = key[c]
       /\ IF in[c].readonly
            THEN store[in[c].id].kind = "view" /\ hist[c].finalOp = "View"
            ELSE store[in[c].id].kind = "active" /\ hist[c].finalOp = "Prepare"

\* C4: a call that starts after a call for the same image and mapping returned
\* success, and meets no collaborator failure, walks nothing, creates no
\* transient snapshot, and succeeds with its target prepared from the cache key.
C4_IdempotentReuse ==
  \A c \in Calls :
    (Done(c) /\ ~hist[c].faulted /\ << in[c].img, in[c].idmap >> \in hist[c].priorOK)
    => /\ ret[c] = OK
       /\ hist[c].statRes = OK /\ hist[c].hitRes = OK
       /\ hist[c].walks = 0 /\ hist[c].prepRes = Pending
       /\ TargetFrom(c)

C4_Witness ==
  \E c \in Calls :
    /\ Done(c) /\ ~hist[c].faulted /\ << in[c].img, in[c].idmap >> \in hist[c].priorOK
    /\ ret[c] = OK /\ hist[c].walks = 0

\* C5: when a call returns after a failed walk, neither the cache key nor the
\* transient snapshot exists (the Remove of the cleanup was not made to fail).
C5_PartialFailureCleanup ==
  \A c \in Calls :
    (Done(c) /\ Failed(hist[c].walkRes) /\ hist[c].removeRes # ErrUnavailable)
    => ~hist[c].keyLeft /\ ~hist[c].transientLeft

\* C6: the content of the target of a successful call is the parent layer with
\* every owner translated under that call's own mapping.
C6_OwnMapping ==
  \A c \in Calls :
    ret[c] = OK
    => /\ Exists(store, in[c].id)
       /\ Covers(in[c].img, in[c].idmap)
       /\ store[in[c].id].content = Walk(BaseContent(in[c].img), 1, in[c].idmap, 0).content

\* C7: the transient snapshot is prepared only after a not-found of Stat or of
\* the cache-hit Prepare; any other error of Stat or of the cache-hit Prepare
\* is returned as it is, with no transient snapshot prepared.
C7_OnlyNotFoundFallsBack ==
  \A c \in Calls :
    /\ (pc[c] \in {"prepremap", "remap", "cleanup", "commit", "final"} \/ hist[c].prepRes # Pending)
         => (hist[c].statRes = ErrNotFound \/ hist[c].hitRes = ErrNotFound)
    /\ (Failed(hist[c].statRes) /\ hist[c].statRes # ErrNotFound)
         => (Done(c) /\ ret[c] = hist[c].statRes /\ hist[c].prepRes = Pending)
    /\ (Failed(hist[c].hitRes) /\ hist[c].hitRes # ErrNotFound)
         => (Done(c) /\ ret[c] = hist[c].hitRes /\ hist[c].prepRes = Pending)

\* C8: the container's snapshot key and image name are set only together with a
\* successful Prepare or View of the target; a call that returns an error
\* leaves them as they were.
C8_AllOrNothingBinding ==
  \A c \in Calls :
    /\ Failed(ret[c])
         => ctr[c].SnapshotKey = NewContainer.SnapshotKey /\ ctr[c].Image = NewContainer.Image
    /\ (ctr[c].SnapshotKey # NewContainer.SnapshotKey \/ ctr[c].Image # NewContainer.Image)
         => /\ hist[c].hitRes = OK \/ hist[c].finalRes = OK
            /\ ret[c] = OK
            /\ ctr[c].SnapshotKey = in[c].id /\ ctr[c].Image = in[c].img
            /\ Exists(store, in[c].id)

C8_Witness ==
  \E c \in Calls :
    /\ Failed(hist[c].finalRes) /\ ret[c] = hist[c].finalRes
    /\ ctr[c].SnapshotKey = NewContainer.SnapshotKey /\ ctr[c].Image = NewContainer.Image

\* C9: the parent layers keep their ownership, and the walk has only ever run
\* against a transient snapshot, never a parent layer, a cache key or a target.
C9_ParentUntouched ==
  /\ \A i \in Images :
       /\ Exists(store, ChainID(i))
       /\ store[ChainID(i)].kind = "committed"
       /\ store[ChainID(i)].content = BaseContent(i)
  /\ walked \subseteq { RemapKey(key[c]) : c \in { d \in Calls : key[d] # "" } }
  /\ walked \cap ({ ChainID(i) : i \in Images } \cup { key[c] : c \in Calls }
                   \cup { TargetName(c) : c \in Calls }) = {}

C9_Witness ==
  \E c \in Calls :
    /\ hist[c].walkRes = OK /\ RemapKey(key[c]) \in walked
    /\ store[parent[c]].content = BaseContent(in[c].img)
    /\ \E i \in 1..Len(BaseContent(in[c].img)) : BaseContent(in[c].img)[i].uid # 0

\* C10: the cache key is "<chainID>-<hostUID>-<hostGID>"; two calls derive the
\* same key exactly when their parent chain and their root pair are equal.
ExpectedKey(img, idmap) ==
  IF img = "imgA"
    THEN IF idmap = MapSingle THEN "sha256:abc-12-3" ELSE "sha256:abc-1-23"
    ELSE "sha256:abd-12-3"

C10_KeyDeterministic ==
  \A c, d \in Calls :
    (parent[c] # "" /\ parent[d] # "")
    => /\ key[c] = ExpectedKey(in[c].img, in[c].idmap)
       /\ (parent[c] = parent[d] /\ RootPair(in[c].idmap) = RootPair(in[d].idmap))
            <=> key[c] = key[d]

C10_Witness ==
  \E c, d \in Calls :
    /\ c # d /\ key[c] # "" /\ key[c] = key[d]
    /\ in[c].idmap # in[d].idmap /\ in[c].readonly # in[d].readonly
    /\ Exists(store, key[c]) /\ hist[c].statRes # hist[d].statRes

OpsOf(c, op) == { i \in 1..Len(hist[c].ops) : hist[c].ops[i][1] = op }

\* The operations a call issues from the Prepare of the transient snapshot on.
BuildOps(c) ==
  LET o == hist[c].ops
      first == CHOOSE i \in 1..Len(o) : o[i] = Op("Prepare", RemapKey(key[c]), parent[c])
  IN SubSeq(o, first, Len(o))

\* C13: a successful cache miss issues, in this order, Prepare of the transient
\* snapshot on the parent, the walk of the transient snapshot, Commit of it under
\* the cache key, Prepare or View of the target on the cache key, and the
\* binding; a call walks and commits at most once, never commits under the
\* target name, and every target has the cache key as parent.
C13_BuildOrder ==
  \A c \in Calls :
    /\ (ret[c] = OK /\ hist[c].prepRes = OK)
         => BuildOps(c) =
              << Op("Prepare", RemapKey(key[c]), parent[c]),
                 Op("Walk", RemapKey(key[c]), ""),
                 Op("Commit", key[c], RemapKey(key[c])),
                 Op(IF in[c].readonly THEN "View" ELSE "Prepare", in[c].id, key[c]),
                 Op("Bind", in[c].id, in[c].img) >>
    /\ Cardinality(OpsOf(c, "Walk")) <= 1
    /\ Cardinality(OpsOf(c, "Commit")) <= 1
    /\ \A i \in OpsOf(c, "Commit") : hist[c].ops[i][2] # in[c].id
    /\ (in[c].id # "" /\ Exists(store, in[c].id)) => store[in[c].id].parent = key[c]

C13_Witness ==
  \E c \in Calls :
    /\ ret[c] = OK /\ hist[c].prepRes = OK /\ in[c].readonly
    /\ Len(hist[c].ops) = 6

\* C16: after a failed walk the Remove of the cleanup is issued before the call
\* returns, and the call returns the walk's error even when the Remove fails.
C16_CleanupErrorSuppressed ==
  \A c \in Calls :
    (Done(c) /\ Failed(hist[c].walkRes))
    => /\ hist[c].removeRes # Pending
       /\ OpsOf(c, "Remove") # {}
       /\ ret[c] = hist[c].walkRes
       /\ ret[c] \in {ErrNoMapping, ErrLstat}

C16_Witness ==
  \E c \in Calls :
    /\ Done(c) /\ hist[c].walkRes = ErrNoMapping
    /\ hist[c].removeRes = ErrUnavailable /\ ret[c] = ErrNoMapping

\* C17: the cleanup of a call never removes an artifact that another call
\* committed under the cache key.
C17_CleanupOwnOnly ==
  \A c \in Calls :
    hist[c].removeRes = OK
    => ~ \E d \in Calls \ {c} : key[d] = key[c] /\ hist[d].commitRes = OK

\* C18: a call that starts after a call for the same image and mapping failed in
\* the walk, and that meets no failure of its own (its mapping covers the
\* layer), returns success.
C18_FailedWalkDoesNotBlock ==
  \A c \in Calls :
    (/\ Done(c) /\ ~hist[c].faulted
     /\ << in[c].img, in[c].idmap >> \in hist[c].priorWalkFail
     /\ Covers(in[c].img, in[c].idmap))
    => ret[c] = OK

\* The committed snapshots under derived cache keys.
CacheKeys == { k \in DOMAIN store : store[k].kind = "committed" /\ store[k].parent # "" }

\* C19: every committed snapshot under a cache key holds the parent layer after
\* one complete walk, without error, by the call that committed it; no call
\* commits after a failed walk and no snapshot is walked twice.
C19_CommittedFullyWalked ==
  /\ \A k \in CacheKeys :
       \E d \in Calls :
         /\ key[d] = k /\ hist[d].commitRes = OK
         /\ hist[d].walkRes = OK /\ hist[d].walks = 1
         /\ store[k].parent = parent[d]
         /\ store[k].content = Walk(BaseContent(in[d].img), 1, in[d].idmap, 0).content
  /\ \A c \in Calls :
       /\ hist[c].commitRes # Pending => hist[c].walkRes = OK
       /\ hist[c].walks <= 1
       /\ pc[c] = "remap" =>
            /\ Exists(store, mounts[c]) /\ store[mounts[c]].kind = "active"
            /\ store[mounts[c]].content = BaseContent(in[c].img)
       /\ \A d \in Calls \ {c} :
            (pc[c] \in {"remap", "cleanup", "commit"} /\ pc[d] \in {"remap", "cleanup", "commit"})
            => mounts[c] # mounts[d]

C19_Witness ==
  \E k \in CacheKeys, c \in Calls :
    /\ key[c] = k /\ Failed(hist[c].walkRes)
    /\ \E i \in 1..Len(store[k].content) : store[k].content[i].uid = 2

AllRoot(img) ==
  \A i \in 1..Len(BaseContent(img)) : BaseContent(img)[i] = [uid |-> 0, gid |-> 0]

IsSingle(m) ==
  /\ Len(m.UIDMaps) = 1 /\ m.UIDMaps[1].ContainerID = 0 /\ m.UIDMaps[1].Size = 1
  /\ Len(m.GIDMaps) = 1 /\ m.GIDMaps[1].ContainerID = 0 /\ m.GIDMaps[1].Size = 1

\* C20: the mapping of WithRemappedSnapshot and WithRemappedSnapshotView has one
\* range of length 1 from container id 0 on each axis; with it the walk of a
\* cache miss succeeds exactly when every entry of the layer is owned by 0:0,
\* and otherwise the call returns the translation error, commits nothing and
\* binds nothing.
C20_SingleRangeRootOnly ==
  /\ \A u, g \in {3, 12} :
       /\ IsSingle(SingleMapping(u, g))
       /\ RootPair(SingleMapping(u, g)) = [UID |-> u, GID |-> g]
  /\ \A c \in Calls :
       (in[c].idmap = MapSingle /\ hist[c].walkRes # Pending /\ ~hist[c].faulted)
       => /\ hist[c].walkRes = OK <=> AllRoot(in[c].img)
          /\ ~AllRoot(in[c].img)
               => /\ hist[c].walkRes = ErrNoMapping
                  /\ hist[c].commitRes = Pending
                  /\ ctr[c].SnapshotKey = NewContainer.SnapshotKey
                  /\ ctr[c].Image = NewContainer.Image
                  /\ ~Exists(store, in[c].id)
                  /\ Done(c) => ret[c] = ErrNoMapping

C20_Witness ==
  /\ \E c \in Calls :
       /\ in[c].idmap = MapSingle /\ ~AllRoot(in[c].img)
       /\ Done(c) /\ ret[c] = ErrNoMapping /\ ~hist[c].faulted
  /\ \E c \in Calls :
       /\ in[c].idmap = MapSingle /\ AllRoot(in[c].img)
       /\ ret[c] = OK /\ hist[c].walkRes = OK

\* ---------------------------------------------------------------- properties of the walk
\* Section 4.1 of the specification, stated range by range: h is the host value
\* of container value v when the first range that holds v maps it to h.
Holds(m, v) == m.ContainerID <= v /\ v < m.ContainerID + m.Size

Translates(maps, v, h) ==
  \E i \in 1..Len(maps) :
    /\ Holds(maps[i], v)
    /\ \A j \in 1..(i - 1) : ~Holds(maps[j], v)
    /\ h = maps[i].HostID + (v - maps[i].ContainerID)

Unmapped(maps, v) == \A i \in 1..Len(maps) : ~Holds(maps[i], v)

Translated(o, h) ==
  /\ Translates(wmap.UIDMaps, o.uid, h.uid)
  /\ Translates(wmap.GIDMaps, o.gid, h.gid)

Untranslatable(o) == Unmapped(wmap.UIDMaps, o.uid) \/ Unmapped(wmap.GIDMaps, o.gid)

WalkFailed == wret \in {ErrLstat, ErrNoMapping}

\* The i-th call of the walk function returned nil.
Reowned(i) == i <= Len(wvisited) /\ ~(i = Len(wvisited) /\ WalkFailed)

\* The entries below p in the directory structure, p included.
RECURSIVE Under(_)
Under(p) ==
  {p} \cup UNION { Under(Join(p, DirNames(p)[n])) : n \in 1..Len(DirNames(p)) }

Subtree == Under(WalkRoot)

Visits(p) == { i \in 1..Len(wvisited) : wvisited[i] = p }

\* C11: the owner chown sets on an entry is, on each axis independently, the
\* host value the first range holding the entry's container value gives,
\* hostStart + (v - containerStart); when no range holds the user or the group
\* value the walk function returns the no-mapping error and sets no owner.
C11_TranslationCorrect ==
  \A i \in 1..Len(wvisited) :
    LET p == wvisited[i]
        o == worig[p]
    IN /\ Reowned(i) => Translated(o, wfs[p])
       /\ (i # wfail /\ Untranslatable(o))
            => /\ i = Len(wvisited)
               /\ wret = ErrNoMapping
               /\ wfs[p] = o
       /\ (i = Len(wvisited) /\ wret = ErrNoMapping) => Untranslatable(o)

C11_Witness ==
  /\ wret = ErrNoMapping
  /\ \E i \in 1..Len(wvisited) :
       /\ Reowned(i)
       /\ ~Holds(wmap.UIDMaps[1], worig[wvisited[i]].uid)
  /\ \E i \in 1..Len(wvisited) :
       /\ Reowned(i)
       /\ \E j, k \in 1..Len(wmap.GIDMaps) :
            j # k /\ Holds(wmap.GIDMaps[j], worig[wvisited[i]].gid)
                  /\ Holds(wmap.GIDMaps[k], worig[wvisited[i]].gid)
       /\ worig[wvisited[i]].uid # worig[wvisited[i]].gid

\* C12: the walk changes the owner of a symbolic link itself; it neither changes
\* the owner of the link's target nor walks into it, and no entry outside the
\* walked subtree changes owner.
C12_SymlinkSafe ==
  /\ \A p \in WalkPaths \ Subtree : wfs[p] = worig[p] /\ Visits(p) = {}
  /\ \A i \in 1..Len(wvisited) :
       LET p == wvisited[i]
       IN (Kind(p) = "symlink" /\ Reowned(i))
          => /\ Translated(worig[p], wfs[p])
             /\ wfs[LinkTarget(p)] = worig[LinkTarget(p)]
             /\ \A n \in 1..Len(DirNames(LinkTarget(p))) :
                  Visits(Join(p, DirNames(LinkTarget(p))[n])) = {}
                  /\ Visits(Join(LinkTarget(p), DirNames(LinkTarget(p))[n])) = {}

C12_Witness ==
  /\ wret = OK
  /\ \E p \in Subtree :
       /\ Kind(p) = "symlink" /\ LinkTarget(p) \notin Subtree
       /\ wfs[p] # worig[p]
       /\ wfs[p] # wfs[LinkTarget(p)]

\* C14: the walk ends at the first entry whose metadata cannot be read or whose
\* owner has no translation: that entry keeps its owner, no later entry is
\* visited or changed, every earlier entry was reowned, and the walk returns
\* that entry's error.
C14_AbortOnFirstError ==
  LET k == Len(wvisited)
  IN /\ \A i \in 1..(k - 1) : i # wfail /\ ~Untranslatable(worig[wvisited[i]])
     /\ WalkFailed
          => /\ k >= 1
             /\ \A i \in k..Len(WalkOrder) : wfs[WalkOrder[i]] = worig[WalkOrder[i]]
             /\ \A i \in 1..(k - 1) : Translated(worig[wvisited[i]], wfs[wvisited[i]])
             /\ wret = (IF k = wfail THEN ErrLstat ELSE ErrNoMapping)
             /\ k # wfail => Untranslatable(worig[wvisited[k]])
     /\ wret = OK => wfail = 0 /\ \A p \in Subtree : ~Untranslatable(worig[p])

C14_Witness ==
  /\ wret = ErrLstat
  /\ Len(wvisited) = wfail
  /\ 1 < wfail /\ wfail < Len(WalkOrder)
  /\ \E i \in (wfail + 1)..Len(WalkOrder) : Untranslatable(worig[WalkOrder[i]])
  /\ \A i \in 1..(wfail - 1) : wfs[wvisited[i]] # worig[wvisited[i]]

\* C15: a walk that returns no error has called the walk function exactly once
\* for every entry of the subtree, the root included, a directory before the
\* entries in it, and every entry's owner is the translation of the owner it
\* had before the walk.
C15_FullWalk ==
  /\ \A p \in WalkPaths : Cardinality(Visits(p)) <= 1
  /\ wret = OK
       => /\ \A p \in Subtree : Cardinality(Visits(p)) = 1
          /\ \A p \in Subtree : Translated(worig[p], wfs[p])
          /\ \A d \in Subtree : \A n \in 1..Len(DirNames(d)) :
               \A i \in Visits(d) : \A j \in Visits(Join(d, DirNames(d)[n])) : i < j
          /\ Visits(WalkRoot) = {1}

C15_Witness ==
  /\ wret = OK
  /\ Len(wvisited) = Cardinality(Subtree)
  /\ Len(wmap.UIDMaps) > 1
  /\ \E p, q \in Subtree : worig[p] # worig[q] /\ wfs[p].uid # wfs[q].uid
====
